---- MODULE Spec2Model ----
(***************************************************************************)
(* The in-memory bucket store of package ratelimits (type inmem): one Go   *)
(* map from bucket key to TAT guarded by one embedded sync.RWMutex, called *)
(* by several goroutines through Set, Get and Delete.                      *)
(*                                                                         *)
(* A goroutine's call is cut at the points where other goroutines can      *)
(* interleave: the Lock/RLock, the map access and the deferred             *)
(* Unlock/RUnlock.  A call is taken to be invoked at its Lock/RLock and to *)
(* return at its Unlock/RUnlock: the invocation can only be earlier and    *)
(* the return later, so whenever one call returns before another is        *)
(* invoked in the program, it does so here.  What a call returns is fixed  *)
(* once its return statement has run, that is in the states where the      *)
(* goroutine is at "unlock".                                               *)
(*                                                                         *)
(* The same file holds MeasuredHandler, the HTTP handler that counts the   *)
(* requests in flight per endpoint and observes the response time of each  *)
(* request under its endpoint, method and status code.  It shares nothing  *)
(* with the store: Spec and FairSpec run the store, HttpSpec and GaugeSpec *)
(* run the handler.  The duration observed is not modelled, only the       *)
(* labels it is observed under.                                            *)
(***************************************************************************)
EXTENDS Integers, Sequences, FiniteSets, TLC

\* ---------------------------------------------------------------- bounds
NumProcs == 2
MaxTime == 1

Procs == 1..NumProcs
\* bucket keys ('name:id'); the store only compares them for equality
Keys == {"login:alice", "k"}
\* the key whose writes the run records; the store treats all keys alike
Probe == "k"
\* time.Time{} : the zero timestamp Get returns beside ErrBucketNotFound
ZeroTime == 0
Times == ZeroTime..MaxTime
\* a timestamp no caller ever passes to Set
Garbage == MaxTime + 1

ErrBucketNotFound == "bucket not found"
Nil == "nil"
Ctxs == {"live", "cancelled"}

\* the frame of a goroutine that is in no call, and a result not yet set
NoCall == [op |-> "none", bucketKey |-> "", tat |-> ZeroTime, ctx |-> "live"]
NoRes == [tat |-> ZeroTime, err |-> "unset"]
\* the mark a Delete leaves among the latest writes of a key
Deleted == ZeroTime - 1

VARIABLES
    m,        \* in.m : the map, a function whose domain is the keys present
    rwW,      \* the goroutine that owns the writer side of the RWMutex, if any
    readers,  \* the goroutines that hold the read lock
    pc,       \* where each goroutine is in its call
    call,     \* the arguments of each goroutine's call in progress
    res,      \* the values each goroutine's call is about to return
    raced,    \* a map write has overlapped another access of the map
    ctx,      \* the context the callers pass: live, or cancelled before the calls
    \* what follows records the run; no operation of the store reads it
    everSet,  \* the keys some Set has been called on
    latest,   \* the writes of Probe (a timestamp, or Deleted) that have
              \* returned and that no later call of Set or Delete on Probe
              \* came after: the candidates for its current entry
    later,    \* the write of Probe that returned last replaced a later timestamp
    quiet,    \* per goroutine in Get: no Set or Delete of its key was in
              \* progress at any time since the Get was called
    pre,      \* per goroutine, the map as its lookup or store found it
    abs,      \* the map of the sequential specification
    lin,      \* per goroutine, the answer of the sequential specification
    \* MeasuredHandler: a goroutine per request in ServeHTTP
    hpc,      \* where each goroutine is in ServeHTTP
    req,      \* the request it serves: the pattern its mux matches, its method
    method,   \* the local variable method: the label the switch computed
    code,     \* rwws.code : the status code tracked for the request
    wcode,    \* the status code the wrapped ResponseWriter was given last,
              \* or NoHeader
    wrote,    \* the wrapped ResponseWriter was given a body
    gauge,    \* in_flight_requests : the gauge of each endpoint pattern
    obs       \* the response_time observations the request has made

\* the variables of the handler
http == <<hpc, req, method, code, wcode, wrote, gauge, obs>>

vars == <<m, rwW, readers, pc, call, res, raced, ctx, everSet, latest, later, quiet, pre, abs, lin,
          hpc, req, method, code, wcode, wrote, gauge, obs>>

\* ------------------------------------------------------- MeasuredHandler
\* endpoint patterns the mux answers with
Patterns == {"/directory", "/acme/new-nonce"}
\* the methods ServeHTTP keeps as they are
KnownMethods ==
    {"GET", "HEAD", "POST", "PUT", "PATCH", "DELETE", "CONNECT", "OPTIONS", "TRACE"}
\* request methods: the known ones, and some that are not (the comparison is
\* exact, so a lower-case or an empty method is not a known one)
Methods == KnownMethods \cup {"BREW", "get"}
\* http.StatusOK
StatusOK == 200
\* the code of a responseWriterWithStatus nothing was written to
NoCode == 0
\* status codes a handler passes to WriteHeader: any int is accepted, 0
\* included, which puts the tracked code back to the value Write tests for
Codes == {NoCode, 404, 500}
\* the wrapped ResponseWriter was given no status code yet
NoHeader == NoCode - 1
NoReq == [pattern |-> "", method |-> ""]

\* (variant) a label that is the method as the client sent it
MethodLabelRaw(mth) == mth

\* the switch on r.Method
MethodLabel(mth) == IF mth \in KnownMethods THEN mth ELSE "unknown"

\* strconv.Itoa
Digit(d) == <<"0", "1", "2", "3", "4", "5", "6", "7", "8", "9">>[d + 1]
RECURSIVE ItoaNat(_)
ItoaNat(n) == IF n < 10 THEN Digit(n) ELSE ItoaNat(n \div 10) \o Digit(n % 10)
Itoa(n) == IF n < 0 THEN "-" \o ItoaNat(0 - n) ELSE ItoaNat(n)

\* (variant) a Write that always marks the response as 200
WriteCodeAlways(c) == StatusOK

\* Write: if r.code == 0 { r.code = http.StatusOK }
WriteCode(c) == IF c = NoCode THEN StatusOK ELSE c

\* (variant) a Dec that is lost
GaugeDecNone(g, pat) == g

\* inFlightRequestsGauge.WithLabelValues(pattern).Inc() and .Dec()
GaugeInc(g, pat) == [g EXCEPT ![pat] = @ + 1]
GaugeDec(g, pat) == [g EXCEPT ![pat] = @ - 1]

\* h.stat.With(labels).Observe(...): the labels of the observation
Observation(pat, mlabel, c) == [endpoint |-> pat, method |-> mlabel, code |-> Itoa(c)]

\* ---------------------------------------------------------------- the map
\* newInmem: an empty map
newInmem == << >>

\* (variant) a lookup that takes a zero timestamp for a missing entry
MapHasNonZero(mm, k) == k \in DOMAIN mm /\ mm[k] # ZeroTime

\* tat, ok := in.m[bucketKey]
MapHas(mm, k) == k \in DOMAIN mm

\* (variant) a store that keeps the later of the old and the new timestamp
MapAssignMax(mm, k, tat) ==
    [x \in (DOMAIN mm) \cup {k} |->
        IF x # k THEN mm[x]
        ELSE IF k \in DOMAIN mm /\ mm[k] > tat THEN mm[k] ELSE tat]

\* (variant) a store that replaces the map by the one new entry
MapAssignOnly(mm, k, tat) == [x \in {k} |-> tat]

\* (variant) a store that adds the new timestamp to the one already there
MapAssignAdd(mm, k, tat) ==
    [x \in (DOMAIN mm) \cup {k} |->
        IF x # k THEN mm[x]
        ELSE IF k \in DOMAIN mm THEN mm[k] + tat ELSE tat]

\* in.m[bucketKey] = tat
MapAssign(mm, k, tat) ==
    [x \in (DOMAIN mm) \cup {k} |-> IF x = k THEN tat ELSE mm[x]]

\* (variant) a delete that leaves the entry in place
MapDeleteNothing(mm, k) == mm

\* (variant) a delete that empties the map
MapDeleteAll(mm, k) == << >>

\* delete(in.m, bucketKey)
MapDelete(mm, k) == [x \in (DOMAIN mm) \ {k} |-> mm[x]]

\* (variant) a Get that answers a missing key with the zero timestamp
GetResultZero(mm, k) ==
    IF ~MapHas(mm, k)
    THEN [tat |-> ZeroTime, err |-> Nil]
    ELSE [tat |-> mm[k], err |-> Nil]

\* the two returns of Get: (tat, nil) or (time.Time{}, ErrBucketNotFound)
GetResult(mm, k) ==
    IF ~MapHas(mm, k)
    THEN [tat |-> ZeroTime, err |-> ErrBucketNotFound]
    ELSE [tat |-> mm[k], err |-> Nil]

\* (variant) a Set that reports the cancellation of its context
SetResultCtx(c) ==
    [tat |-> ZeroTime, err |-> IF c = "cancelled" THEN "context canceled" ELSE Nil]

\* what Set returns; its context argument is the blank identifier
SetResult(c) == [tat |-> ZeroTime, err |-> Nil]

\* (variant) a Delete that reports a missing bucket
DeleteResultNotFound(c) == [tat |-> ZeroTime, err |-> ErrBucketNotFound]

\* what Delete returns; its context argument is the blank identifier
DeleteResult(c) == [tat |-> ZeroTime, err |-> Nil]

\* ------------------------------------------- the sequential specification
\* a map with atomic operations: the state after an operation, and its answer
SeqNext(a, op, k, tat) ==
    CASE op = "Set" -> [x \in (DOMAIN a) \cup {k} |-> IF x = k THEN tat ELSE a[x]]
      [] op = "Delete" -> [x \in (DOMAIN a) \ {k} |-> a[x]]
      [] OTHER -> a

SeqAnswer(a, op, k) ==
    IF op = "Get" /\ k \notin DOMAIN a
    THEN [tat |-> ZeroTime, err |-> ErrBucketNotFound]
    ELSE IF op = "Get" THEN [tat |-> a[k], err |-> Nil]
    ELSE [tat |-> ZeroTime, err |-> Nil]

\* ---------------------------------------------------------------- RWMutex
\* goroutines inside a map write (between its first and its last store)
Writing == {q \in Procs : pc[q] = "store"}
\* readers parked in RLock behind a pending or active writer
Blocked == {q \in Procs : pc[q] = "rblocked"}
\* calls of Set or Delete on key k in progress
Mutating(k) == {q \in Procs : call[q].op \in {"Set", "Delete"} /\ call[q].bucketKey = k}

\* (variant) an RLock that does not wait for writers
RLockAlways(wr) == TRUE

\* RLock returns at once iff no writer is pending or active
RLockFree(wr) == wr = {}
\* (variant) a Lock that does not exclude other writers
LockAlways(wr) == TRUE

\* Lock takes the writer side iff no other writer has it
LockFree(wr) == wr = {}
\* (variant) a Lock that does not wait for the readers inside
WriterMayEnterAlways(rd) == TRUE

\* a pending writer proceeds once the readers that held the lock have left
WriterMayEnter(rd) == rd = {}
\* (variant) an Unlock that wakes no reader
WokenNone(bl) == {}

\* Unlock hands the lock to every reader parked behind the writer
Woken(bl) == bl

\* ---------------------------------------------------------------- actions
Init ==
    /\ m = newInmem
    /\ rwW = {}
    /\ readers = {}
    /\ pc = [p \in Procs |-> "idle"]
    /\ call = [p \in Procs |-> NoCall]
    /\ res = [p \in Procs |-> NoRes]
    /\ raced = FALSE
    /\ ctx \in Ctxs
    /\ everSet = {}
    /\ latest = {}
    /\ later = FALSE
    /\ quiet = [p \in Procs |-> FALSE]
    /\ pre = [p \in Procs |-> << >>]
    /\ abs = << >>
    /\ lin = [p \in Procs |-> NoRes]
    /\ hpc = [p \in Procs |-> "idle"]
    /\ req = [p \in Procs |-> NoReq]
    /\ method = [p \in Procs |-> ""]
    /\ code = [p \in Procs |-> NoCode]
    /\ wcode = [p \in Procs |-> NoHeader]
    /\ wrote = [p \in Procs |-> FALSE]
    /\ gauge = [pat \in Patterns |-> 0]
    /\ obs = [p \in Procs |-> << >>]

\* Get is called: in.RLock(), which parks the reader behind a writer
CallGet(p, k) ==
    /\ pc[p] = "idle"
    /\ call' = [call EXCEPT ![p] = [op |-> "Get", bucketKey |-> k, tat |-> ZeroTime, ctx |-> ctx]]
    /\ quiet' = [quiet EXCEPT ![p] = (Mutating(k) = {})]
    /\ IF RLockFree(rwW)
       THEN /\ readers' = readers \cup {p}
            /\ pc' = [pc EXCEPT ![p] = "lookup"]
       ELSE /\ pc' = [pc EXCEPT ![p] = "rblocked"]
            /\ UNCHANGED readers
    /\ UNCHANGED <<m, rwW, res, raced, ctx, everSet, latest, later, pre, abs, lin>>
    /\ UNCHANGED http

\* Set or Delete is called: in.Lock(), which takes the writer side of the
\* lock (stopping new readers) if no writer has it, and then returns if no
\* reader is inside
CallMutate(p, op, k, tat) ==
    /\ pc[p] = "idle"
    /\ call' = [call EXCEPT ![p] = [op |-> op, bucketKey |-> k, tat |-> tat, ctx |-> ctx]]
    /\ everSet' = IF op = "Set" THEN everSet \cup {k} ELSE everSet
    /\ latest' = IF k = Probe THEN {} ELSE latest
    /\ later' = (later /\ k # Probe)
    /\ quiet' = [q \in Procs |-> quiet[q] /\ call[q].bucketKey # k]
    /\ IF LockFree(rwW)
       THEN /\ rwW' = {p}
            /\ pc' = [pc EXCEPT ![p] = IF WriterMayEnter(readers) THEN "store" ELSE "wwait"]
       ELSE /\ pc' = [pc EXCEPT ![p] = "wblocked"]
            /\ UNCHANGED rwW
    /\ UNCHANGED <<m, readers, res, raced, ctx, pre, abs, lin>>
    /\ UNCHANGED http

\* in.Lock() of a writer that found the writer side taken
LockW(p) ==
    /\ pc[p] = "wblocked"
    /\ LockFree(rwW)
    /\ rwW' = {p}
    /\ pc' = [pc EXCEPT ![p] = IF WriterMayEnter(readers) THEN "store" ELSE "wwait"]
    /\ UNCHANGED <<m, readers, call, res, raced, ctx, everSet, latest, later, quiet, pre, abs, lin>>
    /\ UNCHANGED http

\* in.Lock() returns: the readers that were inside have left
LockAcquire(p) ==
    /\ pc[p] = "wwait"
    /\ WriterMayEnter(readers)
    /\ pc' = [pc EXCEPT ![p] = "store"]
    /\ UNCHANGED <<m, rwW, readers, call, res, raced, ctx, everSet, latest, later, quiet, pre, abs, lin>>
    /\ UNCHANGED http

\* tat, ok := in.m[bucketKey] and the two returns of Get.  A lookup that runs
\* while another goroutine is inside a map write is a data race: any result,
\* then and from then on.
GetLookup(p) ==
    /\ pc[p] = "lookup"
    /\ raced' = (raced \/ Writing # {})
    /\ \E r \in IF ~raced /\ Writing = {}
                THEN {GetResult(m, call[p].bucketKey)}
                ELSE [tat : Times \cup {Garbage}, err : {Nil, ErrBucketNotFound}] :
          res' = [res EXCEPT ![p] = r]
    /\ pre' = [pre EXCEPT ![p] = m]
    /\ lin' = [lin EXCEPT ![p] = SeqAnswer(abs, "Get", call[p].bucketKey)]
    /\ pc' = [pc EXCEPT ![p] = "unlock"]
    /\ UNCHANGED <<m, rwW, readers, call, ctx, everSet, latest, later, quiet, abs>>
    /\ UNCHANGED http

\* in.m[bucketKey] = tat; return nil.  Two overlapping map writes are a data
\* race: the map may end as either write left it, or with a torn value,
\* then and from then on.
SetStore(p) ==
    /\ pc[p] = "store"
    /\ call[p].op = "Set"
    /\ raced' = (raced \/ Writing # {p})
    /\ \E mm \in IF ~raced /\ Writing = {p}
                 THEN {MapAssign(m, call[p].bucketKey, call[p].tat)}
                 ELSE {MapAssign(m, call[p].bucketKey, call[p].tat), m,
                       MapAssign(m, call[p].bucketKey, Garbage)} :
          m' = mm
    /\ res' = [res EXCEPT ![p] = SetResult(call[p].ctx)]
    /\ pre' = [pre EXCEPT ![p] = m]
    /\ abs' = SeqNext(abs, "Set", call[p].bucketKey, call[p].tat)
    /\ lin' = [lin EXCEPT ![p] = SeqAnswer(abs, "Set", call[p].bucketKey)]
    /\ pc' = [pc EXCEPT ![p] = "unlock"]
    /\ UNCHANGED <<rwW, readers, call, ctx, everSet, latest, later, quiet>>
    /\ UNCHANGED http

\* delete(in.m, bucketKey); return nil
DeleteStore(p) ==
    /\ pc[p] = "store"
    /\ call[p].op = "Delete"
    /\ raced' = (raced \/ Writing # {p})
    /\ \E mm \in IF ~raced /\ Writing = {p}
                 THEN {MapDelete(m, call[p].bucketKey)}
                 ELSE {MapDelete(m, call[p].bucketKey), m} :
          m' = mm
    /\ res' = [res EXCEPT ![p] = DeleteResult(call[p].ctx)]
    /\ pre' = [pre EXCEPT ![p] = m]
    /\ abs' = SeqNext(abs, "Delete", call[p].bucketKey, call[p].tat)
    /\ lin' = [lin EXCEPT ![p] = SeqAnswer(abs, "Delete", call[p].bucketKey)]
    /\ pc' = [pc EXCEPT ![p] = "unlock"]
    /\ UNCHANGED <<rwW, readers, call, ctx, everSet, latest, later, quiet>>
    /\ UNCHANGED http

\* defer in.RUnlock(), and Get returns to its caller
RUnlock(p) ==
    /\ pc[p] = "unlock"
    /\ call[p].op = "Get"
    /\ readers' = readers \ {p}
    /\ pc' = [pc EXCEPT ![p] = "idle"]
    /\ call' = [call EXCEPT ![p] = NoCall]
    /\ res' = [res EXCEPT ![p] = NoRes]
    /\ quiet' = [quiet EXCEPT ![p] = FALSE]
    /\ pre' = [pre EXCEPT ![p] = << >>]
    /\ lin' = [lin EXCEPT ![p] = NoRes]
    /\ UNCHANGED <<m, rwW, raced, ctx, everSet, latest, later, abs>>
    /\ UNCHANGED http

\* defer in.Unlock(), and Set or Delete returns to its caller; the readers
\* parked behind the writer get the read lock
Unlock(p) ==
    /\ pc[p] = "unlock"
    /\ call[p].op \in {"Set", "Delete"}
    /\ rwW' = {}
    /\ readers' = readers \cup Woken(Blocked)
    /\ pc' = [q \in Procs |-> IF q = p THEN "idle"
                              ELSE IF q \in Woken(Blocked) THEN "lookup" ELSE pc[q]]
    /\ call' = [call EXCEPT ![p] = NoCall]
    /\ res' = [res EXCEPT ![p] = NoRes]
    /\ latest' = IF call[p].bucketKey = Probe
                  THEN latest \cup {IF call[p].op = "Set" THEN call[p].tat ELSE Deleted}
                  ELSE latest
    /\ later' = IF call[p].bucketKey = Probe
                 THEN /\ call[p].op = "Set"
                      /\ Probe \in DOMAIN pre[p]
                      /\ pre[p][Probe] > call[p].tat
                 ELSE later
    /\ pre' = [pre EXCEPT ![p] = << >>]
    /\ lin' = [lin EXCEPT ![p] = NoRes]
    /\ UNCHANGED <<m, raced, ctx, everSet, quiet, abs>>
    /\ UNCHANGED http

Next ==
    \E p \in Procs :
        \/ \E k \in Keys : CallGet(p, k)
        \/ \E k \in Keys, t \in Times : CallMutate(p, "Set", k, t)
        \/ \E k \in Keys : CallMutate(p, "Delete", k, ZeroTime)
        \/ LockW(p)
        \/ LockAcquire(p)
        \/ GetLookup(p)
        \/ SetStore(p)
        \/ DeleteStore(p)
        \/ RUnlock(p)
        \/ Unlock(p)

Spec == Init /\ [][Next]_vars

\* the steps of a call that nothing can disable once the goroutine is at
\* them: the map access, the deferred unlock, and the return of Lock to the
\* pending writer (no reader enters the lock while a writer is pending)
Proceed(p) ==
    \/ LockAcquire(p)
    \/ GetLookup(p)
    \/ SetStore(p)
    \/ DeleteStore(p)
    \/ RUnlock(p)
    \/ Unlock(p)

\* The calls whose termination is checked.  No branch of the store reads a
\* timestamp or the context, so the callers here pass one timestamp and a
\* live context, on either key.
FairNext ==
    \E p \in Procs :
        \/ \E k \in Keys : CallGet(p, k)
        \/ \E k \in Keys : CallMutate(p, "Set", k, ZeroTime)
        \/ \E k \in Keys : CallMutate(p, "Delete", k, ZeroTime)
        \/ LockW(p)
        \/ LockAcquire(p)
        \/ GetLookup(p)
        \/ SetStore(p)
        \/ DeleteStore(p)
        \/ RUnlock(p)
        \/ Unlock(p)

\* The scheduler runs every goroutine that can run, and a writer parked in
\* Lock is not overtaken for ever: sync.Mutex, which serialises the writers
\* of the RWMutex, hands the lock to the waiter at the front of its queue
\* once that waiter has waited too long (starvation mode).  Callers are
\* under no obligation to call.
FairInit == Init /\ ctx = "live"

FairSpec ==
    /\ FairInit
    /\ [][FairNext]_vars
    /\ \A p \in Procs : WF_vars(Proceed(p)) /\ SF_vars(LockW(p))

\* ------------------------------------------------ MeasuredHandler.ServeHTTP
\* ServeHTTP up to the call of the sub-handler: rwws starts with code 0, the
\* mux gives the pattern, the gauge of the pattern is incremented, and the
\* switch computes the method label
Enter(p, pat, mth) ==
    /\ hpc[p] = "idle"
    /\ req' = [req EXCEPT ![p] = [pattern |-> pat, method |-> mth]]
    /\ code' = [code EXCEPT ![p] = NoCode]
    /\ gauge' = GaugeInc(gauge, pat)
    /\ method' = [method EXCEPT ![p] = MethodLabel(mth)]
    /\ hpc' = [hpc EXCEPT ![p] = "handler"]
    /\ UNCHANGED <<wcode, wrote, obs>>
    /\ UNCHANGED <<m, rwW, readers, pc, call, res, raced, ctx, everSet, latest, later, quiet, pre, abs, lin>>

\* the sub-handler calls rwws.WriteHeader(c)
WriteHeader(p, c) ==
    /\ hpc[p] = "handler"
    /\ code' = [code EXCEPT ![p] = c]
    /\ wcode' = [wcode EXCEPT ![p] = c]
    /\ UNCHANGED <<hpc, req, method, wrote, gauge, obs>>
    /\ UNCHANGED <<m, rwW, readers, pc, call, res, raced, ctx, everSet, latest, later, quiet, pre, abs, lin>>

\* the sub-handler calls rwws.Write(body)
Write(p) ==
    /\ hpc[p] = "handler"
    /\ code' = [code EXCEPT ![p] = WriteCode(code[p])]
    /\ wrote' = [wrote EXCEPT ![p] = TRUE]
    /\ UNCHANGED <<hpc, req, method, wcode, gauge, obs>>
    /\ UNCHANGED <<m, rwW, readers, pc, call, res, raced, ctx, everSet, latest, later, quiet, pre, abs, lin>>

\* the sub-handler returns (or panics) and the deferred closure runs:
\* h.stat.With(labels).Observe(...), the code label being strconv.Itoa(rwws.code)
Observe(p) ==
    /\ hpc[p] = "handler"
    /\ obs' = [obs EXCEPT ![p] = Append(@, Observation(req[p].pattern, method[p], code[p]))]
    /\ hpc' = [hpc EXCEPT ![p] = "dec"]
    /\ UNCHANGED <<req, method, code, wcode, wrote, gauge>>
    /\ UNCHANGED <<m, rwW, readers, pc, call, res, raced, ctx, everSet, latest, later, quiet, pre, abs, lin>>

\* the deferred Dec of the gauge of the pattern, and ServeHTTP returns
Dec(p) ==
    /\ hpc[p] = "dec"
    /\ gauge' = GaugeDec(gauge, req[p].pattern)
    /\ hpc' = [hpc EXCEPT ![p] = "idle"]
    /\ req' = [req EXCEPT ![p] = NoReq]
    /\ method' = [method EXCEPT ![p] = ""]
    /\ code' = [code EXCEPT ![p] = NoCode]
    /\ wcode' = [wcode EXCEPT ![p] = NoHeader]
    /\ wrote' = [wrote EXCEPT ![p] = FALSE]
    /\ obs' = [obs EXCEPT ![p] = << >>]
    /\ UNCHANGED <<m, rwW, readers, pc, call, res, raced, ctx, everSet, latest, later, quiet, pre, abs, lin>>

\* A request's pattern, method label and tracked code are locals of its
\* goroutine; the requests meet only at the gauge and the histogram.  The
\* two specifications below run the same ServeHTTP with concurrent requests
\* and differ in the inputs they draw: every method, on one pattern and with
\* one status code; or every pattern and every status code, with one known
\* and one unknown method.

\* concurrent requests of every method
HttpNext ==
    \E p \in Procs :
        \/ \E mth \in Methods : Enter(p, "/directory", mth)
        \/ WriteHeader(p, 404)
        \/ Write(p)
        \/ Observe(p)
        \/ Dec(p)

\* concurrent requests of every pattern, with every status code
GaugeNext ==
    \E p \in Procs :
        \/ \E pat \in Patterns, mth \in {"GET", "BREW"} : Enter(p, pat, mth)
        \/ \E c \in Codes : WriteHeader(p, c)
        \/ Write(p)
        \/ Observe(p)
        \/ Dec(p)

\* the handler serves requests; the bucket store is left alone
HttpInit == Init /\ ctx = "live"

HttpSpec == HttpInit /\ [][HttpNext]_vars

GaugeSpec == HttpInit /\ [][GaugeNext]_vars

\* ---------------------------------------------------------------- claims
\* the call of p has run its return statement: what it returns is fixed
AtReturn(p) == pc[p] = "unlock"
GetDone(p) == AtReturn(p) /\ call[p].op = "Get"
NotFound == [tat |-> ZeroTime, err |-> ErrBucketNotFound]
\* the entry of key k in map mm: whether it is present, and its timestamp
Entry(mm, k) == IF k \in DOMAIN mm THEN <<TRUE, mm[k]>> ELSE <<FALSE, ZeroTime>>

\* C1: a Get of a key that no Set was ever called on fails with
\* ErrBucketNotFound, whatever was done to other keys and whatever Gets and
\* Deletes were done to the key itself; it never succeeds with a timestamp.
C1_NeverSetNotFound ==
    \A p \in Procs :
        (GetDone(p) /\ call[p].bucketKey \notin everSet)
            => res[p] = NotFound

\* a Get of Probe returns NotFound when Probe was never set but was deleted,
\* while the other key has an entry
C1_Witness ==
    \E p \in Procs :
        /\ GetDone(p) /\ call[p].bucketKey = Probe
        /\ Probe \notin everSet /\ latest = {Deleted}
        /\ DOMAIN m # {}
        /\ res[p] = NotFound

\* C2: last write wins.  A Set leaves its timestamp in the map whatever the
\* entry was before (earlier, equal, later or absent), and a Get of a key
\* whose latest write is a Set of t (no Set or Delete of the key in progress
\* during the Get) returns t with no error.
C2_LastWriteWins ==
    /\ \A p \in Procs :
          (AtReturn(p) /\ call[p].op = "Set")
              => (res[p].err = Nil /\ Entry(m, call[p].bucketKey) = <<TRUE, call[p].tat>>)
    /\ \A p \in Procs, t \in Times :
          (GetDone(p) /\ call[p].bucketKey = Probe /\ quiet[p] /\ latest = {t})
              => res[p] = [tat |-> t, err |-> Nil]

\* Set(k, t1); Set(k, t2); Get(k) with t2 earlier than t1: the Get returns t2
C2_Witness ==
    \E p \in Procs, t \in Times :
        /\ GetDone(p) /\ call[p].bucketKey = Probe /\ quiet[p]
        /\ latest = {t} /\ later
        /\ res[p] = [tat |-> t, err |-> Nil]

\* C3: a Get of a key whose latest write is a Delete (no Set or Delete of
\* the key in progress during the Get) fails with ErrBucketNotFound: after
\* Set(k, t); Delete(k) and until the next call that writes k, Get(k) is
\* NotFound.
C3_DeletedNotFound ==
    \A p \in Procs :
        (GetDone(p) /\ call[p].bucketKey = Probe /\ quiet[p] /\ latest = {Deleted})
            => res[p] = NotFound

\* Probe was set, then deleted, and a Get of it returns NotFound
C3_Witness ==
    \E p \in Procs :
        /\ GetDone(p) /\ call[p].bucketKey = Probe /\ quiet[p]
        /\ Probe \in everSet /\ latest = {Deleted}
        /\ res[p] = NotFound

\* C4: a Delete of a key that has no entry returns nil and leaves the whole
\* map as it found it.
C4_DeleteAbsent ==
    \A p \in Procs :
        (AtReturn(p) /\ call[p].op = "Delete" /\ call[p].bucketKey \notin DOMAIN pre[p])
            => (res[p].err = Nil /\ m = pre[p])

\* a Delete of an absent key returns while the other key has its entry
C4_Witness ==
    \E p \in Procs :
        /\ AtReturn(p) /\ call[p].op = "Delete"
        /\ call[p].bucketKey \notin DOMAIN pre[p]
        /\ DOMAIN pre[p] # {}
        /\ res[p].err = Nil /\ m = pre[p]

\* C5: when two or more Sets of a key with distinct timestamps ran
\* concurrently, with no Delete of the key among them, a Get of the key
\* called after they have all returned succeeds with one of their timestamps.
C5_OneOfWritten ==
    \A p \in Procs :
        (GetDone(p) /\ call[p].bucketKey = Probe /\ quiet[p]
            /\ Deleted \notin latest /\ Cardinality(latest) >= 2)
            => (res[p].err = Nil /\ res[p].tat \in latest)

\* a Get after two concurrent Sets of distinct timestamps
C5_Witness ==
    \E p \in Procs :
        /\ GetDone(p) /\ call[p].bucketKey = Probe /\ quiet[p]
        /\ Deleted \notin latest /\ Cardinality(latest) >= 2
        /\ res[p].err = Nil /\ res[p].tat \in latest

\* C6: every call takes effect at one instant between its invocation and its
\* return (its lookup or its store), and returns what a map with atomic
\* operations answers at that instant; the map of the store is then the map
\* of that sequential specification.  The order of these instants is the
\* total order of the claim: it respects the real-time order, and in it every
\* Get returns the latest Set not followed by a Delete.
C6_Linearizable ==
    /\ \A p \in Procs : AtReturn(p) => res[p] = lin[p]
    /\ Writing = {} => m = abs

\* a Get that overlapped a Set or Delete of its key has returned
C6_Witness ==
    \E p \in Procs :
        /\ GetDone(p) /\ ~quiet[p]
        /\ Mutating(call[p].bucketKey) # {}
        /\ res[p] = lin[p] /\ res[p].err = Nil

\* goroutines that hold the lock and are at their lookup or store, or past it
Inside == {q \in Procs : pc[q] \in {"lookup", "store", "unlock"}}
\* goroutines that wait for the lock
Waiting == {q \in Procs : pc[q] \in {"rblocked", "wblocked", "wwait"}}
\* the goroutines a waiting goroutine waits for: the owner of the writer side
\* for a parked reader or writer, the readers inside for a pending writer
Ahead(p) == IF pc[p] = "wwait" THEN readers ELSE rwW \ {p}

\* C7 as stated: operations on distinct keys never block each other, so a
\* goroutine that waits for the lock has an operation on its own key ahead.
C7_DistinctKeysNeverBlock ==
    \A p \in Waiting :
        Ahead(p) # {} => \E q \in Ahead(p) : call[q].bucketKey = call[p].bucketKey

\* C7 as the code has it: Gets never wait for Gets, whatever their keys (a
\* parked Get has a Set or Delete ahead of it, which owns the writer side of
\* the lock), but a Set or Delete that is inside excludes every other
\* operation, on its own key or on another.
C7_OnlyGetsShare ==
    /\ \A p \in Procs :
          pc[p] = "rblocked"
              => \E q \in rwW : q # p /\ call[q].op \in {"Set", "Delete"}
    /\ \A p \in Inside :
          call[p].op \in {"Set", "Delete"} => Inside = {p}

\* two Gets of distinct keys are inside their lookup at the same time
C7_Witness ==
    \E p, q \in Procs :
        /\ p # q
        /\ pc[p] = "lookup" /\ pc[q] = "lookup"
        /\ call[p].bucketKey # call[q].bucketKey

\* C8 as stated: a call made with a cancelled context fails with an error
\* other than nil and ErrBucketNotFound, and a cancelled Set or Delete
\* leaves the map as it found it.
C8_CancelledFails ==
    \A p \in Procs :
        (AtReturn(p) /\ call[p].ctx = "cancelled")
            => /\ res[p].err \notin {Nil, ErrBucketNotFound}
               /\ call[p].op \in {"Set", "Delete"} => m = pre[p]

\* C8 as the code has it: the context is not consulted.  With a cancelled
\* context Set returns nil and stores its timestamp, Delete returns nil and
\* removes the entry, and Get returns the stored timestamp or
\* ErrBucketNotFound; no call ever returns another error.
C8_ContextIgnored ==
    \A p \in Procs :
        (AtReturn(p) /\ call[p].ctx = "cancelled")
            => /\ res[p].err \in {Nil, ErrBucketNotFound}
               /\ call[p].op = "Set"
                    => /\ res[p].err = Nil
                       /\ Entry(m, call[p].bucketKey) = <<TRUE, call[p].tat>>
               /\ call[p].op = "Delete"
                    => /\ res[p].err = Nil
                       /\ call[p].bucketKey \notin DOMAIN m
               /\ call[p].op = "Get"
                    => res[p].err = (IF call[p].bucketKey \in DOMAIN pre[p]
                                     THEN Nil ELSE ErrBucketNotFound)

\* a Set called with a cancelled context has changed the map and returns nil
C8_Witness ==
    \E p \in Procs :
        /\ AtReturn(p) /\ call[p].op = "Set" /\ call[p].ctx = "cancelled"
        /\ m # pre[p]
        /\ res[p].err = Nil

\* C9: a Get returns nil iff the key has an entry when it looks it up, and
\* then returns the timestamp stored, the zero timestamp included; otherwise
\* it returns ErrBucketNotFound.  The outcome does not depend on the value.
C9_AbsenceIsNotZero ==
    \A p \in Procs :
        GetDone(p)
            => /\ res[p].err = Nil <=> call[p].bucketKey \in DOMAIN pre[p]
               /\ res[p].err = Nil => res[p].tat = pre[p][call[p].bucketKey]
               /\ res[p].err # Nil => res[p].err = ErrBucketNotFound

\* a Get of a key set to the zero timestamp succeeds and returns it
C9_Witness ==
    \E p \in Procs :
        /\ GetDone(p)
        /\ Entry(pre[p], call[p].bucketKey) = <<TRUE, ZeroTime>>
        /\ res[p] = [tat |-> ZeroTime, err |-> Nil]

\* C10: the entry of a key changes only in the store of a Set or Delete of
\* that key.  No other step (a Get, a Set or Delete of another key, the lock
\* steps, a return) adds, removes or alters it.
C10_Frame ==
    [][\A k \in Keys :
          Entry(m, k) # Entry(m', k)
              => \E p \in Procs :
                    /\ pc[p] = "store" /\ pc'[p] = "unlock"
                    /\ call[p].op \in {"Set", "Delete"}
                    /\ call[p].bucketKey = k]_vars

\* a Set or Delete has changed the entry of its key and left the entry the
\* other key has
C10_Witness ==
    \E p \in Procs, k \in Keys :
        /\ AtReturn(p) /\ call[p].op \in {"Set", "Delete"}
        /\ k # call[p].bucketKey
        /\ Entry(m, call[p].bucketKey) # Entry(pre[p], call[p].bucketKey)
        /\ k \in DOMAIN pre[p] /\ Entry(m, k) = Entry(pre[p], k)

\* C11: Set and Delete are idempotent.  From every map the store reaches,
\* Set(k, t) done twice leaves the map that doing it once leaves, and so does
\* Delete(k); each of the calls returns nil.  In the run: a Set(k, t) that
\* finds k already at t (as the Set before it left it) leaves the whole map
\* as it found it and returns nil, and so does a Delete(k) that finds no
\* entry of k (as the Delete before it left it).
C11_Idempotent ==
    /\ \A k \in Keys, t \in Times :
          /\ MapAssign(MapAssign(m, k, t), k, t) = MapAssign(m, k, t)
          /\ MapDelete(MapDelete(m, k), k) = MapDelete(m, k)
          /\ SetResult(ctx).err = Nil /\ DeleteResult(ctx).err = Nil
    /\ \A p \in Procs :
          (AtReturn(p) /\ call[p].op = "Set"
              /\ Entry(pre[p], call[p].bucketKey) = <<TRUE, call[p].tat>>)
              => (m = pre[p] /\ res[p].err = Nil)
    /\ \A p \in Procs :
          (AtReturn(p) /\ call[p].op = "Delete"
              /\ Entry(pre[p], call[p].bucketKey) = <<FALSE, ZeroTime>>)
              => (m = pre[p] /\ res[p].err = Nil)

\* a Set of a timestamp other than the zero one returns, having found its
\* key already at that timestamp, and the map with both keys is as it found it
C11_Witness ==
    \E p \in Procs :
        /\ AtReturn(p) /\ call[p].op = "Set" /\ call[p].tat # ZeroTime
        /\ Entry(pre[p], call[p].bucketKey) = <<TRUE, call[p].tat>>
        /\ DOMAIN m = Keys
        /\ m = pre[p] /\ res[p].err = Nil

\* C12: lock discipline.  A goroutine at its map write or past it (Set,
\* Delete) owns the writer side of the lock with no reader holding the read
\* lock, and is the only goroutine inside; a goroutine at its map read or
\* past it (Get) holds the read lock, and the goroutines inside with it are
\* Gets, any number of them; no access of the map ever overlapped a write.
C12_LockDiscipline ==
    /\ ~raced
    /\ \A p \in Procs :
          (pc[p] \in {"store", "unlock"} /\ call[p].op \in {"Set", "Delete"})
              => (rwW = {p} /\ readers = {} /\ Inside = {p})
    /\ \A p \in Procs :
          (pc[p] \in {"lookup", "unlock"} /\ call[p].op = "Get")
              => (p \in readers /\ \A q \in Inside : call[q].op = "Get" /\ q \in readers)

\* every goroutine is inside a Get at once, all on one key, one of them at
\* its lookup and another past it, while no writer owns the lock
C12_Witness ==
    /\ Inside = Procs /\ readers = Procs /\ rwW = {}
    /\ \A p \in Procs : call[p].op = "Get" /\ call[p].bucketKey = Probe
    /\ \E p, q \in Procs : pc[p] = "lookup" /\ pc[q] = "unlock"

\* C13: every call terminates and releases the lock.  A goroutine that is
\* in a call of Get, Set or Delete, waiting for the lock or inside, is
\* eventually out of it; a goroutine that is in no call holds neither side of
\* the lock, whichever return it took, so the lock is free whenever no call
\* is in progress.
C13_Terminates ==
    /\ [](\A p \in Procs : pc[p] = "idle" => p \notin (readers \cup rwW))
    /\ []((\A p \in Procs : pc[p] = "idle") => (rwW = {} /\ readers = {}))
    /\ \A p \in Procs : (pc[p] # "idle") ~> (pc[p] = "idle")

\* no call is in progress and the lock is free, after Probe was set and
\* deleted, the other key was set, and a Get that found no entry returned
C13_Witness ==
    /\ \A p \in Procs : pc[p] = "idle"
    /\ rwW = {} /\ readers = {}
    /\ Probe \in everSet /\ latest = {Deleted} /\ DOMAIN m = Keys \ {Probe}

\* C14: the only error the store returns is ErrBucketNotFound, from a Get
\* whose key has no entry.  Set and Delete return nil whatever the key, the
\* timestamp and the map; Get returns nil when the key has an entry; and the
\* call that returns the error has left the map as it found it.
C14_OnlyNotFound ==
    \A p \in Procs :
        AtReturn(p)
            => /\ res[p].err \in {Nil, ErrBucketNotFound}
               /\ call[p].op \in {"Set", "Delete"} => res[p].err = Nil
               /\ (call[p].op = "Get" /\ call[p].bucketKey \in DOMAIN pre[p])
                     => res[p].err = Nil
               /\ res[p].err # Nil
                     => /\ call[p].op = "Get"
                        /\ call[p].bucketKey \notin DOMAIN pre[p]
                        /\ m = pre[p]

\* a Get returns ErrBucketNotFound for a key that was set and deleted, and
\* the map, which holds the other key, is as the Get found it
C14_Witness ==
    \E p \in Procs :
        /\ GetDone(p) /\ call[p].bucketKey # Probe
        /\ call[p].bucketKey \in everSet
        /\ res[p].err = ErrBucketNotFound
        /\ m = pre[p] /\ DOMAIN m = {Probe}

\* the goroutines in ServeHTTP past the Inc of pattern pat and not yet returned
InFlight(pat) == {p \in Procs : hpc[p] \in {"handler", "dec"} /\ req[p].pattern = pat}

\* C15: in every state of every interleaving, the in_flight_requests gauge
\* of each pattern is the number of ServeHTTP calls for that pattern that
\* are past the increment and have not returned: the sub-handler runs with
\* its request counted, the request is counted once, the gauge is never
\* negative, and it is zero when no request is being served.
C15_GaugeCountsInFlight ==
    /\ \A pat \in Patterns :
          /\ gauge[pat] = Cardinality(InFlight(pat))
          /\ gauge[pat] >= 0
    /\ \A p \in Procs : hpc[p] = "handler" => gauge[req[p].pattern] >= 1
    /\ (\A p \in Procs : hpc[p] = "idle") => \A pat \in Patterns : gauge[pat] = 0

\* every goroutine serves a request of one pattern, one of them in the
\* sub-handler and another past its observation, and the other pattern has
\* no request
C15_Witness ==
    \E pat \in Patterns :
        /\ InFlight(pat) = Procs /\ gauge[pat] = NumProcs
        /\ \E p, q \in Procs : hpc[p] = "handler" /\ hpc[q] = "dec"
        /\ \A other \in Patterns \ {pat} : gauge[other] = 0

\* the nine methods the claim lists
ListedMethods ==
    {"GET", "HEAD", "POST", "PUT", "PATCH", "DELETE", "CONNECT", "OPTIONS", "TRACE"}

\* C16: a request makes no response_time observation before its sub-handler
\* returns and exactly one after; the method label of the observation is the
\* method of the request when that is one of the nine listed and "unknown"
\* for any other method, so the labels emitted come from a set of ten.
C16_MethodFolded ==
    /\ \A p \in Procs :
          /\ hpc[p] \in {"idle", "handler"} => obs[p] = << >>
          /\ hpc[p] = "dec"
                => /\ Len(obs[p]) = 1
                   /\ obs[p][1].method =
                         (IF req[p].method \in ListedMethods
                          THEN req[p].method ELSE "unknown")
                   /\ obs[p][1].method \in ListedMethods \cup {"unknown"}
                   /\ obs[p][1].endpoint = req[p].pattern
    /\ Cardinality(ListedMethods \cup {"unknown"}) <= 10

\* a lower-case "get" has been observed as "unknown" while another request,
\* a GET, has been observed as "GET"
C16_Witness ==
    \E p, q \in Procs :
        /\ hpc[p] = "dec" /\ req[p].method = "get"
        /\ obs[p] = <<[endpoint |-> req[p].pattern, method |-> "unknown", code |-> "0"]>>
        /\ hpc[q] = "dec" /\ req[q].method = "GET"
        /\ obs[q][1].method = "GET"

\* C17: the status tracked by responseWriterWithStatus.  A step of a
\* sub-handler changes the writer of its request in one of two ways: a Write,
\* which gives the wrapped writer a body, turns a tracked code of 0 into 200
\* and leaves any other tracked code as it is; or a WriteHeader(c), which
\* makes c the tracked code and the code given to the wrapped writer,
\* whatever c is.  The tracker knows "no status code set" only as code 0:
\* after WriteHeader(0) the tracked code is 0 and the next Write makes it
\* 200.  The tracked code does not change once the sub-handler has returned,
\* and the code label of the observation is the tracked code in decimal.
C17_StatusTracked ==
    /\ [](\A p \in Procs :
            hpc[p] = "dec" => /\ Len(obs[p]) = 1
                              /\ obs[p][1].code = Itoa(code[p]))
    /\ [][\A p \in Procs :
            /\ (hpc[p] = "handler" /\ hpc'[p] = "handler")
                  => \/ /\ wrote'[p]
                        /\ wcode'[p] = wcode[p]
                        /\ code'[p] = (IF code[p] = 0 THEN 200 ELSE code[p])
                     \/ \E c \in Codes :
                           /\ code'[p] = c /\ wcode'[p] = c
                           /\ wrote'[p] = wrote[p]
                     \/ /\ code'[p] = code[p] /\ wcode'[p] = wcode[p]
                        /\ wrote'[p] = wrote[p]
            /\ (hpc[p] = "handler" /\ hpc'[p] = "dec") => code'[p] = code[p]
            /\ (hpc[p] = "dec" /\ hpc'[p] = "dec") => code'[p] = code[p]]_vars

\* one request was given WriteHeader(404) and a Write and is observed with
\* code "404"; another was given WriteHeader(0) and then a Write, which found
\* code 0 and made it 200, and is observed with "200"
C17_Witness ==
    \E p, q \in Procs :
        /\ hpc[p] = "dec" /\ wcode[p] = 404 /\ wrote[p]
        /\ code[p] = 404 /\ obs[p][1].code = "404"
        /\ hpc[q] = "dec" /\ wcode[q] = 0 /\ wrote[q]
        /\ code[q] = 200 /\ obs[q][1].code = "200"

TypeOK ==
    /\ DOMAIN m \subseteq Keys
    /\ \A k \in DOMAIN m : m[k] \in Times
    /\ rwW \subseteq Procs /\ Cardinality(rwW) <= 1
    /\ readers \subseteq Procs
====
